---- MODULE Spec2Model ----
(***************************************************************************)
(* Checksum-based incremental backup (whbboyd/backup).                     *)
(*                                                                         *)
(* Strings are sequences of one-character strings, so that the manifest    *)
(* text format, Path::components and strip_prefix are computed the way the *)
(* code computes them.  A file on disk is the sequence of its bytes.       *)
(***************************************************************************)
EXTENDS Naturals, Integers, Sequences, FiniteSets, TLC

VARIABLES
    args,           \* Args: [source, dry_run, old_checksums, new_checksums]
    fs,             \* status of the nodes of the source tree that vary
    sumsFile,       \* the checksum manifest file on disk: [exists, bytes]
    destFile,       \* the archive on disk: [exists, entries]
    pc,             \* position of do_main
    outcome,        \* how the process ended
    fault,          \* the I/O failure the run met, "none" if none
    old_checksums,  \* HashMap<String,String> loaded from the manifest file
    new_checksums,  \* HashMap<String,String> produced by the scan
    reported,       \* keys listed by the dry-run report
    scanFs,         \* fs at the time of the scan
    hashed,         \* paths whose content was fed to the hash in this run
    touched,        \* files the run opened: "sums:r", "sums:w", "dest:w"
    run,            \* number of the run in a chain of runs
    chainArchived   \* <<entry name, digest of entry content>> archived so far

vars == <<args, fs, sumsFile, destFile, pc, outcome, fault,
          old_checksums, new_checksums, reported, scanFs, hashed,
          touched, run, chainArchived>>

-----------------------------------------------------------------------------
(* Bounds of the model *)

MaxLines == 3

MaxRuns == 2

-----------------------------------------------------------------------------
(* Characters *)

TAB == "\t"

NL == "\n"

SP == " "

\* A byte that is not valid UTF-8: BufRead::lines yields Err for its line.
BAD == "#"

NoFile == [exists |-> FALSE, bytes |-> <<>>]

FileOf(bytes) == [exists |-> TRUE, bytes |-> bytes]

NoArchive == [exists |-> FALSE, entries |-> {}]

ArchiveOf(entries) == [exists |-> TRUE, entries |-> entries]

EmptyMap == <<>>

\* char::is_whitespace, for the characters that can occur inside a line
IsWhitespace(c) == c \in {SP, TAB}

Range(s) == {s[i] : i \in 1..Len(s)}

\* HashMap::insert: the new value replaces the old one
Insert(m, k, v) == [x \in (DOMAIN m) \cup {k} |-> IF x = k THEN v ELSE m[x]]

\* HashMap::get(k).map_or(...) helpers
HasKey(m, k) == k \in DOMAIN m

-----------------------------------------------------------------------------
(* ManifestCodec: load_checksums / save_checksums *)

RECURSIVE LinesFrom(_, _, _)
LinesFrom(bytes, i, cur) ==
    IF i > Len(bytes)
    THEN IF cur = <<>> THEN <<>> ELSE <<cur>>
    ELSE IF bytes[i] = NL
         THEN <<cur>> \o LinesFrom(bytes, i + 1, <<>>)
         ELSE LinesFrom(bytes, i + 1, Append(cur, bytes[i]))

\* BufRead::lines: the file cut at "\n"; a last line needs no newline
lines(bytes) == LinesFrom(bytes, 1, <<>>)

\* a line holding invalid UTF-8 is yielded as Err
LineIsErr(l) == BAD \in Range(l)

RECURSIVE FieldsFrom(_, _, _)
FieldsFrom(l, i, cur) ==
    IF i > Len(l)
    THEN IF cur = <<>> THEN <<>> ELSE <<cur>>
    ELSE IF IsWhitespace(l[i])
         THEN (IF cur = <<>> THEN <<>> ELSE <<cur>>) \o FieldsFrom(l, i + 1, <<>>)
         ELSE FieldsFrom(l, i + 1, Append(cur, l[i]))

\* str::split_whitespace: the maximal runs of non-whitespace characters
split_whitespace(l) == FieldsFrom(l, 1, <<>>)

\* a filename seen before keeps its first checksum
InsertFieldsKeepFirst(checksums, fields) ==
    IF HasKey(checksums, fields[2]) THEN checksums
    ELSE Insert(checksums, fields[2], fields[1])

\* checksums.insert(filename, checksum): the checksum is the first field, the
\* filename the second
InsertFields(checksums, fields) == Insert(checksums, fields[2], fields[1])

\* one iteration of the loop over the lines
LoadLine(checksums, l) ==
    IF LineIsErr(l) THEN checksums                      \* Err(_) => continue
    ELSE LET fields == split_whitespace(l) IN
         IF Len(fields) < 1 THEN checksums              \* no checksum: continue
         ELSE IF Len(fields) < 2 THEN checksums         \* no filename: continue
         ELSE InsertFields(checksums, fields)

RECURSIVE LoadFrom(_, _, _)
LoadFrom(ls, i, checksums) ==
    IF i > Len(ls) THEN checksums
    ELSE LoadFrom(ls, i + 1, LoadLine(checksums, ls[i]))

\* load_checksums on a file that could be opened
load_checksums(bytes) == LoadFrom(lines(bytes), 1, EmptyMap)

\* format!("{}\t{}\n", value, key)
FormatLine(key, value) == value \o <<TAB>> \o key \o <<NL>>

RECURSIVE WriteLines(_, _, _)
WriteLines(checksums, order, n) ==
    IF n = 0 THEN <<>>
    ELSE WriteLines(checksums, order, n - 1)
         \o FormatLine(order[n], checksums[order[n]])

\* the orders in which a HashMap can iterate over its keys
IterOrders(m) ==
    {o \in [1..Cardinality(DOMAIN m) -> DOMAIN m] :
        \A i, j \in DOMAIN o : i # j => o[i] # o[j]}

\* save_checksums: File::create truncates the file, then one line per entry;
\* failAt is the write_all that fails (0: none fails)
save_checksums(prior, checksums, createOk, order, failAt) ==
    IF ~createOk
    THEN [file |-> prior, fault |-> "create_sums"]
    ELSE IF failAt > 0
    THEN [file |-> FileOf(WriteLines(checksums, order, failAt - 1)),
          fault |-> "write_sums"]
    ELSE [file |-> FileOf(WriteLines(checksums, order, Len(order))),
          fault |-> "none"]

-----------------------------------------------------------------------------
(* Paths: std::path::PathBuf over "/"-separated strings *)

SEP == "/"

UP == <<".", ".">>

IsAbsolute(p) == Len(p) > 0 /\ p[1] = SEP

RECURSIVE NamesFrom(_, _, _)
NamesFrom(p, i, cur) ==
    IF i > Len(p)
    THEN IF cur \in {<<>>, <<".">>} THEN <<>> ELSE <<cur>>
    ELSE IF p[i] = SEP
         THEN (IF cur \in {<<>>, <<".">>} THEN <<>> ELSE <<cur>>)
              \o NamesFrom(p, i + 1, <<>>)
         ELSE NamesFrom(p, i + 1, Append(cur, p[i]))

\* Path::components: RootDir first for an absolute path, then the names;
\* empty names and "." are dropped, ".." is kept
components(p) ==
    (IF IsAbsolute(p) THEN <<(<<SEP>>)>> ELSE <<>>) \o NamesFrom(p, 1, <<>>)

RECURSIVE JoinNames(_)
JoinNames(cs) ==
    IF cs = <<>> THEN <<>>
    ELSE IF Len(cs) = 1 THEN cs[1]
    ELSE cs[1] \o <<SEP>> \o JoinNames(Tail(cs))

\* PathBuf::push: an absolute argument replaces the path
push(base, p) ==
    IF IsAbsolute(p) THEN p
    ELSE IF Len(base) > 0 /\ base[Len(base)] = SEP THEN base \o p
    ELSE base \o <<SEP>> \o p

\* Path::strip_prefix: Ok(rest) when base's components start path's
strip_prefix(path, base) ==
    LET pcs == components(path)
        bcs == components(base)
    IN IF Len(bcs) <= Len(pcs) /\ SubSeq(pcs, 1, Len(bcs)) = bcs
       THEN [ok |-> TRUE, rest |-> JoinNames(SubSeq(pcs, Len(bcs) + 1, Len(pcs)))]
       ELSE [ok |-> FALSE, rest |-> <<>>]

\* path.strip_prefix(&source_root) ... .unwrap_or(path.to_str())
KeyOf(path, source_root) ==
    LET r == strip_prefix(path, source_root)
    IN IF r.ok THEN r.rest ELSE path

-----------------------------------------------------------------------------
(* The file system the run works on *)

\* the source root given with -r
SourceRoot == <<"/", "r">>

DirD == <<"/", "r", "/", "d">>

FileA == <<"/", "r", "/", "d", "/", "a">>

FileB == <<"/", "r", "/", "b">>

\* a regular file outside the source root
FileO == <<"/", "o">>

VarNodes == {FileA, FileB}

FixedDirs == {<<"/">>, SourceRoot, DirD}

AllNodes == FixedDirs \cup VarNodes \cup {FileO}

\* absent: no such node; special: a node that is neither a regular file nor a
\* directory; noopen: a regular file File::open fails on; noread: a regular
\* file that opens and whose read fails; c1, c2: a readable regular file
Statuses == {"absent", "special", "noopen", "noread", "c1", "c2"}

Content(status) == IF status = "c1" THEN <<"x">> ELSE <<"y">>

RECURSIVE Canon(_, _, _)
Canon(cs, i, acc) ==
    IF i > Len(cs) THEN acc
    ELSE IF cs[i] = <<SEP>> THEN Canon(cs, i + 1, <<>>)
    ELSE IF cs[i] = UP
         THEN Canon(cs, i + 1, IF acc = <<>> THEN acc ELSE SubSeq(acc, 1, Len(acc) - 1))
         ELSE Canon(cs, i + 1, Append(acc, cs[i]))

\* the node a path names: the kernel resolves ".." against the directories
Resolve(path) ==
    LET ns == Canon(components(path), 1, <<>>)
    IN IF ns = <<>> THEN <<SEP>> ELSE <<SEP>> \o JoinNames(ns)

Status(fsx, path) ==
    LET n == Resolve(path)
    IN IF n \in VarNodes THEN fsx[n]
       ELSE IF n \in FixedDirs THEN "dir"
       ELSE IF n = FileO THEN "c1"
       ELSE "absent"

\* Path::is_file
is_file(fsx, path) == Status(fsx, path) \in {"noopen", "noread", "c1", "c2"}

\* File::open(path) succeeds (read-only; a directory opens, its read fails)
CanOpen(fsx, path) == Status(fsx, path) \in {"noread", "c1", "c2", "dir"}

CanRead(fsx, path) == Status(fsx, path) \in {"c1", "c2"}

Parent(n) ==
    LET cs == components(n)
    IN IF Len(cs) <= 2 THEN <<SEP>>
       ELSE <<SEP>> \o JoinNames(SubSeq(cs, 2, Len(cs) - 1))

\* the orders in which read_dir can list names: every two names of one
\* directory are listed both ways round
DirOrders ==
    {<< <<"a">>, <<"b">>, <<"d">>, <<"o">>, <<"r">> >>,
     << <<"r">>, <<"o">>, <<"d">>, <<"b">>, <<"a">> >>}

RECURSIVE WalkFrom(_, _, _, _)
\* the entries below directory `path`, for the names order[i..] of `order`
RECURSIVE Walk(_, _, _)
Walk(fsx, order, path) ==
    IF Status(fsx, path) = "absent" THEN <<>>        \* Err entry: filter_map(e.ok())
    ELSE <<path>> \o
         (IF Status(fsx, path) = "dir" THEN WalkFrom(fsx, order, path, 1) ELSE <<>>)

WalkFrom(fsx, order, path, i) ==
    IF i > Len(order) THEN <<>>
    ELSE LET child == push(path, order[i])
         IN (IF Resolve(child) \in AllNodes /\ Parent(Resolve(child)) = Resolve(path)
                THEN Walk(fsx, order, child)
                ELSE <<>>)
            \o WalkFrom(fsx, order, path, i + 1)

\* WalkDir::new(path).into_iter().filter_map(|e| e.ok())
WalkDir(fsx, order, path) == Walk(fsx, order, path)

-----------------------------------------------------------------------------
(* TreeHasher: checksum_directory *)

\* Sha1 is modelled as a collision-free hash: its state is the bytes fed since
\* the last reset, and the digest is their hexadecimal rendering.
Sha1New == <<>>

sha1_input(sha1, bytes) == sha1 \o bytes

HexDigit(b) == IF b = "x" THEN "1" ELSE "2"

result_str(sha1) == [i \in 1..Len(sha1) |-> HexDigit(sha1[i])]

sha1_reset(sha1) == Sha1New

ScanStart == [checksums |-> EmptyMap, sha1 |-> Sha1New, panic |-> FALSE, hashed |-> {}]

\* the body of the loop over the walked entries
HashEntry(st, path, source_root, fsx) ==
    IF st.panic THEN st
    ELSE IF ~is_file(fsx, path) THEN st                  \* not a file: continue
    ELSE IF ~CanOpen(fsx, path) THEN st                  \* Err(e) => continue
    ELSE IF ~CanRead(fsx, path)
         THEN [st EXCEPT !.panic = TRUE]                 \* file.read(..).unwrap()
    ELSE LET fed == sha1_input(sha1_input(st.sha1, Content(Status(fsx, path))), <<>>)
         IN [checksums |-> Insert(st.checksums, KeyOf(path, source_root), result_str(fed)),
             sha1      |-> sha1_reset(fed),
             panic     |-> FALSE,
             hashed    |-> st.hashed \cup {path}]

RECURSIVE HashEntries(_, _, _, _, _)
HashEntries(st, entries, i, source_root, fsx) ==
    IF i > Len(entries) THEN st
    ELSE HashEntries(HashEntry(st, entries[i], source_root, fsx),
                     entries, i + 1, source_root, fsx)

RECURSIVE HashSources(_, _, _, _, _, _)
HashSources(st, sources, i, source_root, fsx, order) ==
    IF i > Len(sources) THEN st
    ELSE HashSources(
            HashEntries(st, WalkDir(fsx, order, push(source_root, sources[i])),
                        1, source_root, fsx),
            sources, i + 1, source_root, fsx, order)

checksum_directory(sources, source_root, fsx, order) ==
    HashSources(ScanStart, sources, 1, source_root, fsx, order)

-----------------------------------------------------------------------------
(* ManifestDiff and ArchiveWriter: write_archive and the dry-run report *)

\* only keys the baseline lacks are selected
ArchiveSelectAddedOnly(old, fname, hash) == ~HasKey(old, fname)

\* old_hash.map_or(true, |h| h != hash)
ArchiveSelect(old, fname, hash) ==
    IF HasKey(old, fname) THEN old[fname] # hash ELSE TRUE

\* only keys the baseline has with another hash are listed
DryRunSelectChangedOnly(old, fname, hash) ==
    HasKey(old, fname) /\ old[fname] # hash

\* old_hash.is_none() || old_hash.unwrap() != hash
DryRunSelect(old, fname, hash) ==
    (~HasKey(old, fname)) \/ old[fname] # hash

ArchiveStart == [entries |-> {}, fault |-> "none", written |-> 0]

\* the body of the loop over new_checksums; failAt is the append at which
\* writing to the destination fails (0: writing never fails)
ArchiveEntry(st, new, old, fname, source_root, fsx, failAt) ==
    IF st.fault # "none" THEN st
    ELSE IF ~ArchiveSelect(old, fname, new[fname]) THEN st
    ELSE LET full_fname == push(source_root, fname)
         IN IF ~CanOpen(fsx, full_fname)
            THEN [st EXCEPT !.fault = "open_source"]       \* File::open(..).unwrap()
            ELSE IF ~CanRead(fsx, full_fname)
            THEN [st EXCEPT !.fault = "append_source"]     \* append_file(..).unwrap()
            ELSE IF st.written + 1 = failAt
            THEN [st EXCEPT !.fault = "write_dest"]        \* append_file(..).unwrap()
            ELSE [entries |-> st.entries \cup
                      {[name |-> fname, content |-> Content(Status(fsx, full_fname))]},
                  fault   |-> "none",
                  written |-> st.written + 1]

RECURSIVE ArchiveEntries(_, _, _, _, _, _, _, _)
ArchiveEntries(st, new, old, order, i, source_root, fsx, failAt) ==
    IF i > Len(order) THEN st
    ELSE ArchiveEntries(
            ArchiveEntry(st, new, old, order[i], source_root, fsx, failAt),
            new, old, order, i + 1, source_root, fsx, failAt)

\* write_archive once the destination is created
write_archive(new, old, source_root, fsx, order, failAt) ==
    ArchiveEntries(ArchiveStart, new, old, order, 1, source_root, fsx, failAt)

\* the files the dry run lists
DryRunReport(new, old) ==
    {fname \in DOMAIN new : DryRunSelect(old, fname, new[fname])}

-----------------------------------------------------------------------------
(* do_main *)

\* the source arguments of a run
SourceLists ==
    { << <<"b">>, <<"d">> >>,
      << <<"d">>, <<"d", "/", "a">> >>,
      << <<"d">>, <<"d", "/", ".", ".", "/", "d">> >>,
      << <<"d", "/", ".", ".">> >>,
      << <<"/", "o">>, <<"b">> >> }

\* -r: the source root, or a path that is no directory
RootArgs == {SourceRoot, FileO}

ArgsSet ==
    [source : SourceLists, source_root : RootArgs, dry_run : BOOLEAN,
     old_checksums : BOOLEAN, new_checksums : BOOLEAN]

\* manifest files a run can find on disk
BaselineFiles ==
    { NoFile,
      FileOf(<<"1", TAB, "d", "/", "a", NL, "1", TAB, "b", NL>>),
      FileOf(<<"2", SP, "d", "/", "a", SP, "z", NL, "1", NL,
               "1", TAB, "d", "/", "a">>) }

\* the root check always passes
RootRejectedNever(fsx, source_root) == FALSE

\* !source_root.is_dir()
RootRejected(fsx, source_root) == Status(fsx, source_root) # "dir"

\* the dry-run flag is not consulted
WritesChecksumsIgnoringDryRun(a) == a.new_checksums

\* match (args.flag_dry_run, args.flag_new_checksums): the (false, Some) arm
WritesChecksums(a) == (~a.dry_run) /\ a.new_checksums

RunStart ==
    /\ pc = "root"
    /\ outcome = "running"
    /\ fault = "none"
    /\ old_checksums = EmptyMap
    /\ new_checksums = EmptyMap
    /\ reported = {}
    /\ hashed = {}
    /\ touched = {}

Init ==
    /\ args \in ArgsSet
    /\ fs \in [VarNodes -> Statuses]
    /\ scanFs = fs
    /\ sumsFile \in BaselineFiles
    /\ destFile = NoArchive
    /\ run = 1
    /\ chainArchived = {}
    /\ RunStart

Ended(how, why) ==
    /\ pc' = "done"
    /\ outcome' = how
    /\ fault' = why

CheckRoot ==
    /\ pc = "root"
    /\ IF RootRejected(fs, args.source_root)
       THEN Ended("err", "root")
       ELSE pc' = "load" /\ UNCHANGED <<outcome, fault>>
    /\ UNCHANGED <<args, fs, sumsFile, destFile, old_checksums, new_checksums,
                   reported, scanFs, hashed, touched, run, chainArchived>>

LoadOld ==
    /\ pc = "load"
    /\ IF args.old_checksums
       THEN /\ touched' = touched \cup {"sums:r"}
            /\ IF sumsFile.exists
               THEN /\ old_checksums' = load_checksums(sumsFile.bytes)
                    /\ pc' = "scan"
                    /\ UNCHANGED <<outcome, fault>>
               ELSE /\ Ended("exit4", "open_sums")         \* exit(4)
                    /\ UNCHANGED old_checksums
       ELSE /\ pc' = "scan"
            /\ UNCHANGED <<old_checksums, touched, outcome, fault>>
    /\ UNCHANGED <<args, fs, sumsFile, destFile, new_checksums,
                   reported, scanFs, hashed, run, chainArchived>>

Scan ==
    /\ pc = "scan"
    /\ \E order \in DirOrders :
         LET r == checksum_directory(args.source, args.source_root, fs, order)
         IN /\ new_checksums' = r.checksums
            /\ hashed' = r.hashed
            /\ IF r.panic
               THEN Ended("panic", "read_source")
               ELSE pc' = "save" /\ UNCHANGED <<outcome, fault>>
    /\ scanFs' = fs
    /\ UNCHANGED <<args, fs, sumsFile, destFile, old_checksums,
                   reported, touched, run, chainArchived>>

SaveNew ==
    /\ pc = "save"
    /\ IF WritesChecksums(args)
       THEN /\ touched' = touched \cup {"sums:w"}
            /\ \E createOk \in BOOLEAN, order \in IterOrders(new_checksums) :
               \E failAt \in 0..Len(order) :
                 LET r == save_checksums(sumsFile, new_checksums, createOk, order, failAt)
                 IN /\ sumsFile' = r.file
                    /\ IF r.fault = "none"
                       THEN pc' = "archive" /\ UNCHANGED <<outcome, fault>>
                       ELSE Ended("err", r.fault)
       ELSE /\ pc' = "archive"
            /\ UNCHANGED <<sumsFile, touched, outcome, fault>>
    /\ UNCHANGED <<args, fs, destFile, old_checksums, new_checksums,
                   reported, scanFs, hashed, run, chainArchived>>

WriteBackup ==
    /\ pc = "archive"
    /\ ~args.dry_run
    /\ touched' = touched \cup {"dest:w"}
    /\ \/ /\ Ended("err", "create_dest")                  \* File::create fails
          /\ UNCHANGED <<destFile, chainArchived>>
       \/ \E order \in IterOrders(new_checksums) :
          \E failAt \in 0..Len(order) :
            LET r == write_archive(new_checksums, old_checksums,
                                   args.source_root, fs, order, failAt)
            IN /\ failAt <= r.written + 1
               /\ destFile' = ArchiveOf(r.entries)
               /\ chainArchived' = chainArchived \cup
                      {<<e.name, result_str(e.content)>> : e \in r.entries}
               /\ IF r.fault = "none"
                  THEN Ended("ok", "none")
                  ELSE Ended("panic", r.fault)
    /\ UNCHANGED <<args, fs, sumsFile, old_checksums, new_checksums,
                   reported, scanFs, hashed, run>>

DryRun ==
    /\ pc = "archive"
    /\ args.dry_run
    /\ reported' = DryRunReport(new_checksums, old_checksums)
    /\ Ended("ok", "none")
    /\ UNCHANGED <<args, fs, sumsFile, destFile, old_checksums, new_checksums,
                   scanFs, hashed, touched, run, chainArchived>>

\* what another process can make of a file: delete it, or (re)write it
EnvStatuses == {"absent", "c1", "c2"}

\* another process deletes or rewrites a file of the tree between the scan
\* and the archive pass
EnvChange ==
    /\ pc = "archive"
    /\ \E n \in VarNodes :
         \E st \in EnvStatuses \ {fs[n]} :
            fs' = [fs EXCEPT ![n] = st]
    /\ UNCHANGED <<args, sumsFile, destFile, pc, outcome, fault, old_checksums,
                   new_checksums, reported, scanFs, hashed, touched, run,
                   chainArchived>>

Next ==
    \/ CheckRoot
    \/ LoadOld
    \/ Scan
    \/ SaveNew
    \/ WriteBackup
    \/ DryRun
    \/ EnvChange

Spec == Init /\ [][Next]_vars

-----------------------------------------------------------------------------
(* load_checksums and save_checksums on their own, on arbitrary inputs *)

\* lines a manifest file can hold: empty, one token, two tokens, a repeated
\* filename, three tokens, extra blanks, invalid UTF-8
LineSamples ==
    { <<>>,
      <<"1">>,
      <<"1", SP, "a">>,
      <<"2", TAB, "a">>,
      <<"1", TAB, "b", SP, "z">>,
      <<SP, "2", SP, SP, "b">>,
      <<"1", SP, BAD, "a">> }

RECURSIVE JoinLines(_, _)
JoinLines(ls, trailing) ==
    IF ls = <<>> THEN <<>>
    ELSE IF Len(ls) = 1 THEN ls[1] \o (IF trailing THEN <<NL>> ELSE <<>>)
    ELSE ls[1] \o <<NL>> \o JoinLines(Tail(ls), trailing)

CodecFiles ==
    {NoFile} \cup
    {FileOf(JoinLines(ls, t)) :
        ls \in UNION {[1..n -> LineSamples] : n \in 0..MaxLines}, t \in BOOLEAN}

\* file names: plain ones and one holding a blank
CodecKeys == {<<"a">>, <<"b">>, <<"a", SP, "b">>}

CodecDigests == {<<"1">>, <<"2">>}

Manifests == UNION {[D -> CodecDigests] : D \in SUBSET CodecKeys}

CodecArgs ==
    [source |-> <<>>, source_root |-> SourceRoot, dry_run |-> FALSE,
     old_checksums |-> TRUE, new_checksums |-> TRUE]

InitCodec ==
    /\ args = CodecArgs
    /\ fs = [n \in VarNodes |-> "absent"]
    /\ scanFs = fs
    /\ sumsFile \in CodecFiles
    /\ destFile = NoArchive
    /\ run = 1
    /\ chainArchived = {}
    /\ pc = "codec"
    /\ outcome = "running"
    /\ fault = "none"
    /\ old_checksums = EmptyMap
    /\ new_checksums = EmptyMap
    /\ reported = {}
    /\ hashed = {}
    /\ touched = {}

\* load_checksums(fname)
CodecLoad ==
    /\ pc \in {"codec", "saved"}
    /\ pc' = IF pc = "codec" THEN "loaded" ELSE "reloaded"
    /\ touched' = touched \cup {"sums:r"}
    /\ IF sumsFile.exists
       THEN old_checksums' = load_checksums(sumsFile.bytes) /\ fault' = "none"
       ELSE old_checksums' = EmptyMap /\ fault' = "open_sums"
    /\ UNCHANGED <<args, fs, sumsFile, destFile, outcome, new_checksums,
                   reported, scanFs, hashed, run, chainArchived>>

\* save_checksums(checksums, fname)
CodecSave ==
    /\ pc = "codec"
    /\ \E m \in Manifests, createOk \in BOOLEAN :
         \E order \in IterOrders(m) :
            \E failAt \in 0..Len(order) :
               LET r == save_checksums(sumsFile, m, createOk, order, failAt)
               IN /\ new_checksums' = m
                  /\ sumsFile' = r.file
                  /\ fault' = r.fault
                  /\ pc' = IF r.fault = "none" THEN "saved" ELSE "savefailed"
    /\ touched' = touched \cup {"sums:w"}
    /\ UNCHANGED <<args, fs, destFile, outcome, old_checksums,
                   reported, scanFs, hashed, run, chainArchived>>

NextCodec ==
    \/ CodecLoad
    \/ CodecSave

SpecCodec == InitCodec /\ [][NextCodec]_vars

-----------------------------------------------------------------------------
(* A chain of runs: the manifest one run saves is the baseline of the next *)

ChainArgsSet ==
    {a \in ArgsSet : /\ a.source_root = SourceRoot
                     /\ ~a.dry_run
                     /\ a.new_checksums
                     /\ a.source \in {<< <<"b">>, <<"d">> >>}}

InitChain ==
    /\ args \in {a \in ChainArgsSet : ~a.old_checksums}
    /\ fs \in [VarNodes -> EnvStatuses]
    /\ scanFs = fs
    /\ sumsFile = NoFile
    /\ destFile = NoArchive
    /\ run = 1
    /\ chainArchived = {}
    /\ RunStart

\* the next run of the chain starts, on a tree other processes have changed
NewRun ==
    /\ pc = "done"
    /\ run < MaxRuns
    /\ sumsFile.exists
    /\ run' = run + 1
    /\ args' \in {a \in ChainArgsSet : a.old_checksums}
    /\ fs' \in [VarNodes -> EnvStatuses]
    /\ scanFs' = fs'
    /\ pc' = "root"
    /\ outcome' = "running"
    /\ fault' = "none"
    /\ old_checksums' = EmptyMap
    /\ new_checksums' = EmptyMap
    /\ reported' = {}
    /\ hashed' = {}
    /\ touched' = {}
    /\ UNCHANGED <<sumsFile, destFile, chainArchived>>

NextChain ==
    \/ CheckRoot
    \/ LoadOld
    \/ Scan
    \/ SaveNew
    \/ WriteBackup
    \/ EnvChange
    \/ NewRun

SpecChain == InitChain /\ [][NextChain]_vars

-----------------------------------------------------------------------------
(* Properties *)

\* the keys of `new` that `old` lacks (Added) or holds with another digest
\* (Changed)
ChangedOrAdded(old, new) ==
    {k \in DOMAIN new : k \notin DOMAIN old \/ old[k] # new[k]}

EntryNames(archive) == {e.name : e \in archive.entries}

RunOk == pc = "done" /\ outcome = "ok"

\* C1: after a successful non-dry-run archive write the entry names of the
\* archive are exactly the keys of the fresh manifest that are absent from the
\* baseline or differ from it; no unchanged and no removed key is an entry.
C1_ArchiveIsAddedAndChanged ==
    (RunOk /\ ~args.dry_run) =>
        /\ destFile.exists
        /\ EntryNames(destFile) = ChangedOrAdded(old_checksums, new_checksums)
        /\ \A k \in DOMAIN old_checksums :
              (k \notin DOMAIN new_checksums
                 \/ old_checksums[k] = new_checksums[k])
              => k \notin EntryNames(destFile)

\* a successful write with an Added, a Removed and an Unchanged key
C1_Witness ==
    /\ RunOk /\ ~args.dry_run
    /\ \E k \in DOMAIN new_checksums :
          k \notin DOMAIN old_checksums /\ k \in EntryNames(destFile)
    /\ \E k \in DOMAIN old_checksums : k \notin DOMAIN new_checksums
    /\ \E k \in DOMAIN new_checksums :
          /\ k \in DOMAIN old_checksums
          /\ old_checksums[k] = new_checksums[k]
          /\ k \notin EntryNames(destFile)

\* C3: in a dry run no step creates, truncates or writes the manifest file
\* or the archive file, and a run that completes has reported exactly the
\* changed and added keys of the fresh manifest.
C3_DryRunWritesNothing ==
    [][args.dry_run =>
         /\ sumsFile' = sumsFile
         /\ destFile' = destFile
         /\ "sums:w" \notin touched' /\ "dest:w" \notin touched'
         /\ (pc' = "done" /\ outcome' = "ok" /\ pc # "done")
               => reported' = ChangedOrAdded(old_checksums', new_checksums')]_vars

\* a completed dry run, given -n, that lists some keys and not others
C3_Witness ==
    /\ RunOk /\ args.dry_run /\ args.new_checksums
    /\ reported # {}
    /\ reported # DOMAIN new_checksums
    /\ ~destFile.exists

\* the map the text of a manifest file stands for: each decodable line with
\* two tokens or more maps its second token to its first, the last line of a
\* filename deciding
ExpectedLoad(bytes) ==
    LET ls == lines(bytes)
        idx == {i \in 1..Len(ls) :
                   ~LineIsErr(ls[i]) /\ Len(split_whitespace(ls[i])) >= 2}
        name(i) == split_whitespace(ls[i])[2]
        sum(i) == split_whitespace(ls[i])[1]
    IN [k \in {name(i) : i \in idx} |->
          sum(CHOOSE i \in idx :
                 name(i) = k /\ \A j \in idx : name(j) = k => j <= i)]

C8_BadRootFailsFirst ==
    (pc # "root" /\ Status(fs, args.source_root) # "dir") =>
        /\ pc = "done" /\ outcome = "err" /\ fault = "root"
        /\ hashed = {}
        /\ touched = {}
        /\ old_checksums = EmptyMap /\ new_checksums = EmptyMap
        /\ ~destFile.exists

\* a run that ended at the root check
C8_Witness ==
    /\ pc = "done" /\ fault = "root"
    /\ args.old_checksums /\ args.new_checksums /\ ~args.dry_run
    /\ sumsFile.exists

\* C10: for the same baseline and fresh manifest the dry run lists exactly
\* the keys the archive pass selects.
C10_DryRunListsWhatIsArchived ==
    RunOk =>
        IF args.dry_run
        THEN reported = {k \in DOMAIN new_checksums :
                            ArchiveSelect(old_checksums, k, new_checksums[k])}
        ELSE EntryNames(destFile) = DryRunReport(new_checksums, old_checksums)

\* a completed dry run that lists some, not all, of the keys, one of them a
\* key the baseline holds with another digest
C10_Witness ==
    /\ RunOk
    /\ DryRunReport(new_checksums, old_checksums) \notin {{}, DOMAIN new_checksums}
    /\ args.dry_run
    /\ \E k \in reported : k \in DOMAIN old_checksums

\* C2: a manifest saved with save_checksums and loaded back with
\* load_checksums is the manifest that was saved.
C2_RoundTrip ==
    (pc = "reloaded") => old_checksums = new_checksums

\* the entries of the scan-time tree that the walk of the sources yields
Reached(sources, source_root, fsx) ==
    UNION {Range(WalkDir(fsx, CHOOSE o \in DirOrders : TRUE,
                         push(source_root, sources[i]))) : i \in 1..Len(sources)}

ScanDone == pc \in {"save", "archive", "done"} /\ fault \notin {"root", "open_sums"}

\* C5: the scan never aborts on a node that is no regular file, cannot be
\* opened or cannot be read; it leaves that node out and has an entry for
\* every other regular file under the sources.
C5_ScanSkipsBadNodes ==
    ScanDone =>
        /\ fault # "read_source"
        /\ DOMAIN new_checksums =
              {KeyOf(p, args.source_root) :
                  p \in {q \in Reached(args.source, args.source_root, scanFs) :
                            CanRead(scanFs, q)}}

\* C6: an archive write that cannot create or write the destination, or open
\* or append a selected source file, ends with an error result.
C6_ArchiveFailureIsErr ==
    (fault \in {"create_dest", "write_dest", "open_source", "append_source"})
        => outcome = "err"

\* C7: the manifest has exactly one entry for every regular file the scan
\* reaches under the root, keyed by the file's path relative to the root,
\* with the digest of that file's content alone.
C7_OneEntryPerFile ==
    (ScanDone /\ fault # "read_source") =>
        \A n \in VarNodes :
            (CanRead(scanFs, n)
               /\ \E p \in Reached(args.source, args.source_root, scanFs) :
                     Resolve(p) = n)
            => /\ {k \in DOMAIN new_checksums :
                      Resolve(push(args.source_root, k)) = n}
                     = {strip_prefix(n, args.source_root).rest}
               /\ new_checksums[strip_prefix(n, args.source_root).rest]
                     = result_str(Content(scanFs[n]))

\* C9: whenever a run of the chain that saved its manifest has ended, every
\* key and digest of the manifest on disk was archived by that run or an
\* earlier one.
C9_SavedManifestIsArchived ==
    (pc = "done" /\ "sums:w" \in touched
        /\ fault \notin {"create_sums", "write_sums"}) =>
        LET m == load_checksums(sumsFile.bytes)
        IN \A k \in DOMAIN m : <<k, m[k]>> \in chainArchived

====
